---- MODULE Spec2Model ----
(***************************************************************************)
(* CMSIS-Driver GPIO validation suite: the test sequencer of DV_GPIO.c and *)
(* DV_GPIO.MC.c, its event recorder (GPIO_DrvEvent and the three latched   *)
(* fields), and the driver facade with the wired pin pair it runs against. *)
(*                                                                         *)
(* Every test procedure is the sequence of its statements; the sequencer   *)
(* executes one statement per step, and the driver's callback is a         *)
(* separate step that may run between any two statements while interrupts  *)
(* are enabled.                                                            *)
(***************************************************************************)
EXTENDS Integers, Sequences, FiniteSets, TLC

VARIABLES
  variant,       \* "DV" (DV_GPIO.c) or "MC" (DV_GPIO.MC.c): the file that is built
  conf,          \* TRUE: the driver returns ARM_DRIVER_OK and GetInput reads the line
  setupResets,   \* TRUE: Setup puts the pin back to input / push-pull / no pull / no trigger
  put,           \* the configured identifier of the pin under test
  proc,          \* the test procedure being executed ("none" before the first)
  pc,            \* index of the next statement of proc
  gpio_event,    \* latched event mask      (uint8_t)
  gpio_pin,      \* last pin that triggered (ARM_GPIO_Pin_t)
  gpio_irq_cnt,  \* number of callbacks     (uint8_t)
  dir, mode, pull, out,   \* per pin: direction, output mode, pull resistor, output latch
  trig,          \* event trigger armed on the pin under test
  cb,            \* TRUE when GPIO_DrvEvent is the callback registered on the pin under test
  lvl,           \* level of the line at the pin under test
  irq,           \* TRUE when interrupts are enabled
  pend,          \* callbacks raised by edges and not yet delivered
  first,         \* TRUE until the second procedure starts (run from power-on defaults)
  probed,        \* per pin: status of the first Setup call of proc on it ("none" before it)
  failed,        \* TRUE when an assertion of proc has failed (or TEST_FAIL was called)
  log,           \* statements of proc that called the driver, in order
  tainted,       \* a callback of a transition older than the last reset ran after it
  hist,          \* what the sequencer did since the last reset began
  preReset,      \* what the sequencer did last before that reset
  stimTrig,      \* the trigger that was armed at the last stimulus
  moved,         \* the line changed level since the last settle delay ended
  ncb,           \* callbacks run since the count was last reset, counted without wrap
  allEvents,     \* OR of the event arguments since the mask was last reset, all 32 bits
  verdict        \* outcome of the last assertion expression evaluated on its own

vars == <<variant, conf, setupResets, put, proc, pc, gpio_event, gpio_pin,
          gpio_irq_cnt, dir, mode, pull, out, trig, cb, lvl, irq, pend,
          first, probed, failed, log, tainted, hist, preReset, stimTrig, moved,
          ncb, allEvents, verdict>>

cfgVars == <<variant, conf, setupResets, put>>
recVars == <<gpio_event, gpio_pin, gpio_irq_cnt, ncb, allEvents>>
pinVars == <<dir, mode, pull, out, trig, cb, lvl>>

----------------------------------------------------------------------------
(* Bounds and program constants *)

\* Most callbacks that can be pending at once.
MaxPend == 6

\* Most callbacks run in a row when the recorder is examined on its own.
MaxCalls == 3

\* DV_GPIO_Config.h: "Pin under test <0-160>", configured as 0.
GPIO_PIN_UNDER_TEST == 0
GPIO_PIN_MAX == 160

\* Driver_GPIO.h event flags, as used by the assertions.
ARM_GPIO_EVENT_RISING_EDGE  == 2^0
ARM_GPIO_EVENT_FALLING_EDGE == 2^1
ARM_GPIO_EVENT_EITHER_EDGE  == 2^2

Pins     == {"PUT", "AUX"}
Variants == {"DV", "MC"}
PinIds   == {GPIO_PIN_UNDER_TEST, GPIO_PIN_MAX}

Other(p) == IF p = "PUT" THEN "AUX" ELSE "PUT"

----------------------------------------------------------------------------
(* Fixed-width arithmetic *)

RECURSIVE BitOr(_, _)
BitOr(a, b) ==
  IF a = 0 THEN b
  ELSE IF b = 0 THEN a
  ELSE (IF a % 2 = 1 \/ b % 2 = 1 THEN 1 ELSE 0) + 2 * BitOr(a \div 2, b \div 2)

RECURSIVE BitAnd(_, _)
BitAnd(a, b) ==
  IF a = 0 \/ b = 0 THEN 0
  ELSE (IF a % 2 = 1 /\ b % 2 = 1 THEN 1 ELSE 0) + 2 * BitAnd(a \div 2, b \div 2)

\* (Variant for checking C27: the record fields keep all 32 bits.)
U8_Wide(x) == x

\* Conversion to uint8_t.
U8(x) == x % 256

----------------------------------------------------------------------------
(* Event recorder *)

\* The callback with "gpio_event = event" in place of "gpio_event |= event".
GPIO_DrvEvent_Assign(rec, pin, event) ==
  [event |-> U8(event), pin |-> pin, cnt |-> U8(rec.cnt + 1)]

\* static void GPIO_DrvEvent (ARM_GPIO_Pin_t pin, uint32_t event)
\*   gpio_event |= event;  gpio_pin = pin;  gpio_irq_cnt += 1U;
GPIO_DrvEvent(rec, pin, event) ==
  [event |-> U8(BitOr(rec.event, event)),
   pin   |-> pin,
   cnt   |-> U8(rec.cnt + 1)]

Rec == [event |-> gpio_event, pin |-> gpio_pin, cnt |-> gpio_irq_cnt]

----------------------------------------------------------------------------
(* Statements *)

\* (Variant for checking C15: a driver call whose status is never looked at.)
Call_Unchecked(op, pin, arg, chk, ln) ==
  [op |-> op, pin |-> pin, arg |-> arg, chk |-> "none", ph |-> "", ln |-> ln]

\* A driver call: chk says what is done with the returned status or level:
\*   "probe"  TEST_FAIL and return unless it is ARM_DRIVER_OK
\*   "assert" TEST_ASSERT that it is ARM_DRIVER_OK (GetInput: that it is arg)
\*   "none"   ignored
Call(op, pin, arg, chk, ln) ==
  [op |-> op, pin |-> pin, arg |-> arg, chk |-> chk, ph |-> "", ln |-> ln]

\* Any other statement.
Stmt(op, arg, ln) ==
  [op |-> op, pin |-> "", arg |-> arg, chk |-> "none", ph |-> "", ln |-> ln]

\* The statements s, marked as belonging to phase ph of their procedure.
Ph(ph, s) == [i \in 1..Len(s) |-> [s[i] EXCEPT !.ph = ph]]

\* (Variant for checking C2: a reset that leaves the count as it is.)
ResetRecord_KeepCount(ln) ==
  << Stmt("clr_event", "", ln), Stmt("clr_pin", "", ln + 1) >>

\* gpio_event = 0U; gpio_pin = 0U; gpio_irq_cnt = 0U;  (ln: the first of the three lines)
ResetRecord(ln) ==
  << Stmt("clr_event", "", ln), Stmt("clr_pin", "", ln + 1), Stmt("clr_cnt", "", ln + 2) >>

\* The three assertions on the record after a settle delay.
ReadRecord(ev, pn, cnt, ln1, ln2, ln3) ==
  << Stmt("assert_event", ev, ln1), Stmt("assert_pin", pn, ln2), Stmt("assert_cnt", cnt, ln3) >>

----------------------------------------------------------------------------
(* DV_GPIO.c: helper functions *)

PinUnderTestIsAvailable  == << Call("Setup", "PUT", "NULL", "probe", 86) >>

PinUnderTestInit         == << Call("Setup", "PUT", "NULL", "none", 102) >>

\* (Variant for checking C24: the pin under test is not made an input again.)
PinUnderTestUninit_SetupOnly ==
  << Call("Setup", "PUT", "NULL", "none", 114) >>

PinUnderTestUninit ==
  << Call("SetDirection", "PUT", "INPUT", "none", 113),
     Call("Setup",        "PUT", "NULL",  "none", 114) >>

AuxiliaryPinIsAvailable  == << Call("Setup", "AUX", "NULL", "probe", 127) >>

AuxiliaryPinInit         == << Call("Setup", "AUX", "NULL", "none", 143) >>

AuxiliaryPinUninit ==
  << Call("SetDirection", "AUX", "INPUT", "none", 154),
     Call("Setup",        "AUX", "NULL",  "none", 155) >>

AuxiliaryPinConfigInput  == << Call("SetDirection", "AUX", "INPUT", "none", 166) >>

\* (Variant for checking C5: the auxiliary pin is never made an output.)
AuxiliaryPinConfigOutput_NoDirection ==
  << Call("SetOutputMode", "AUX", "PUSH_PULL", "none", 177) >>

AuxiliaryPinConfigOutput ==
  << Call("SetOutputMode", "AUX", "PUSH_PULL", "none", 177),
     Call("SetDirection",  "AUX", "OUTPUT",    "none", 178) >>

\* (Variant for checking C6: the output latch of the auxiliary pin is not written.)
AuxiliaryPinSetOutput_PullOnly(val) ==
  << Call("SetPullResistor", "AUX", "NONE", "none", 189) >>

AuxiliaryPinSetOutput(val) ==
  << Call("SetPullResistor", "AUX", "NONE", "none", 189),
     Call("SetOutput",       "AUX", val,    "none", 190) >>

\* (Variant for checking C14: the auxiliary pin is left an output.)
AuxiliaryPinDisable_StillOutput ==
  << Call("SetOutput",     "AUX", 0,            "none", 201),
     Call("SetOutputMode", "AUX", "OPEN_DRAIN", "none", 203) >>

AuxiliaryPinDisable ==
  << Call("SetOutput",     "AUX", 0,            "none", 201),
     Call("SetDirection",  "AUX", "INPUT",      "none", 202),
     Call("SetOutputMode", "AUX", "OPEN_DRAIN", "none", 203) >>

----------------------------------------------------------------------------
(* DV_GPIO.c: test procedures *)

DV_GPIO_Setup ==
     Ph("probe", PinUnderTestIsAvailable)
  \o Ph("body", << Call("Setup", "PUT", "NULL",          "assert", 253),
                   Call("Setup", "PUT", "GPIO_DrvEvent", "assert", 256) >>)
  \o Ph("cleanup", PinUnderTestUninit)

DV_GPIO_SetDirection ==
     Ph("probe", PinUnderTestIsAvailable \o AuxiliaryPinIsAvailable)
  \o Ph("body",
          PinUnderTestInit \o AuxiliaryPinInit
       \o << Call("SetDirection", "PUT", "INPUT", "assert", 293) >>
       \o AuxiliaryPinConfigOutput
       \o AuxiliaryPinSetOutput(0)
       \o << Stmt("osDelay", 2, 301), Call("GetInput", "PUT", 0, "assert", 304) >>
       \o AuxiliaryPinSetOutput(1)
       \o << Stmt("osDelay", 2, 309), Call("GetInput", "PUT", 1, "assert", 312) >>
       \o AuxiliaryPinConfigInput
       \o << Call("SetDirection", "PUT", "OUTPUT", "assert", 318),
             Call("SetOutput", "PUT", 0, "none", 321),
             Stmt("osDelay", 2, 323),
             Call("GetInput", "AUX", 0, "assert", 326),
             Call("SetOutput", "PUT", 1, "none", 329),
             Stmt("osDelay", 2, 331),
             Call("GetInput", "AUX", 1, "assert", 334) >>)
  \o Ph("cleanup", AuxiliaryPinUninit \o PinUnderTestUninit)

DV_GPIO_SetOutputMode ==
     Ph("probe", PinUnderTestIsAvailable \o AuxiliaryPinIsAvailable)
  \o Ph("body",
          PinUnderTestInit \o AuxiliaryPinInit
       \o << Call("SetDirection",  "PUT", "OUTPUT",    "assert", 370),
             Call("SetOutputMode", "PUT", "PUSH_PULL", "assert", 373) >>
       \o AuxiliaryPinConfigInput
       \o << Call("SetOutput", "PUT", 0, "none", 379),
             Stmt("osDelay", 2, 381),
             Call("GetInput", "AUX", 0, "assert", 384),
             Call("SetOutput", "PUT", 1, "none", 387),
             Stmt("osDelay", 2, 389),
             Call("GetInput", "AUX", 1, "assert", 392),
             Call("SetOutputMode", "PUT", "OPEN_DRAIN", "assert", 395),
             Call("SetOutput", "PUT", 0, "none", 398),
             Stmt("osDelay", 2, 400),
             Call("GetInput", "AUX", 0, "assert", 403) >>)
  \o Ph("cleanup", AuxiliaryPinUninit \o PinUnderTestUninit)

DV_GPIO_SetPullResistor ==
     Ph("probe", PinUnderTestIsAvailable \o AuxiliaryPinIsAvailable)
  \o Ph("body",
          PinUnderTestInit \o AuxiliaryPinInit
       \o << Call("SetDirection",    "PUT", "INPUT", "assert", 448),
             Call("SetPullResistor", "PUT", "NONE",  "assert", 451) >>
       \o AuxiliaryPinConfigOutput
       \o AuxiliaryPinSetOutput(0)
       \o << Stmt("osDelay", 2, 459), Call("GetInput", "PUT", 0, "assert", 462) >>
       \o AuxiliaryPinSetOutput(1)
       \o << Stmt("osDelay", 2, 467), Call("GetInput", "PUT", 1, "assert", 470) >>
       \o AuxiliaryPinDisable
       \o << Call("SetPullResistor", "PUT", "DOWN", "assert", 476),
             Stmt("osDelay", 2, 478),
             Call("GetInput", "PUT", 0, "assert", 481) >>
       \o AuxiliaryPinConfigOutput
       \o AuxiliaryPinSetOutput(1)
       \o << Stmt("osDelay", 2, 489), Call("GetInput", "PUT", 1, "assert", 492) >>
       \o AuxiliaryPinDisable
       \o << Call("SetPullResistor", "PUT", "UP", "assert", 498),
             Stmt("osDelay", 2, 500),
             Call("GetInput", "PUT", 1, "assert", 503) >>
       \o AuxiliaryPinConfigOutput
       \o AuxiliaryPinSetOutput(0)
       \o << Stmt("osDelay", 2, 511), Call("GetInput", "PUT", 0, "assert", 514) >>)
  \o Ph("cleanup", AuxiliaryPinUninit \o PinUnderTestUninit)

DV_GPIO_SetEventTrigger ==
     Ph("probe", PinUnderTestIsAvailable \o AuxiliaryPinIsAvailable)
  \o Ph("init",
          PinUnderTestInit \o AuxiliaryPinInit
       \o << Call("Setup", "PUT", "GPIO_DrvEvent", "assert", 556) >>
       \o AuxiliaryPinConfigOutput
       \o AuxiliaryPinSetOutput(0))
  \o Ph("rising",
          ResetRecord(564)
       \o << Call("SetEventTrigger", "PUT", "RISING", "assert", 569) >>
       \o AuxiliaryPinSetOutput(1)
       \o << Stmt("osDelay", 2, 574) >>
       \o ReadRecord("RISING", "PUT", "ONE", 577, 580, 583))
  \o Ph("falling",
          ResetRecord(585)
       \o << Call("SetEventTrigger", "PUT", "FALLING", "assert", 590) >>
       \o AuxiliaryPinSetOutput(0)
       \o << Stmt("osDelay", 2, 595) >>
       \o ReadRecord("FALLING", "PUT", "ONE", 598, 601, 604))
  \o Ph("either_rising",
          ResetRecord(606)
       \o << Call("SetEventTrigger", "PUT", "EITHER", "assert", 611) >>
       \o AuxiliaryPinSetOutput(1)
       \o << Stmt("osDelay", 2, 616) >>
       \o ReadRecord("RISING_OR_EITHER", "PUT", "ONE", 619, 623, 626))
  \o Ph("either_falling",
          ResetRecord(628)
       \o AuxiliaryPinSetOutput(0)
       \o << Stmt("osDelay", 2, 635) >>
       \o ReadRecord("FALLING_OR_EITHER", "PUT", "ONE", 638, 642, 645))
  \o Ph("none",
          ResetRecord(647)
       \o << Call("SetEventTrigger", "PUT", "NONE", "assert", 652) >>
       \o AuxiliaryPinSetOutput(1)
       \o AuxiliaryPinSetOutput(0)
       \o << Stmt("osDelay", 2, 658) >>
       \o ReadRecord("ZERO", "ZERO", "ZERO", 661, 664, 667))
  \o Ph("masked",
          << Call("SetEventTrigger", "PUT", "EITHER", "assert", 670) >>
       \o ResetRecord(672)
       \o << Stmt("disable_irq", "", 676) >>
       \o AuxiliaryPinSetOutput(1)
       \o AuxiliaryPinSetOutput(0)
       \o << Stmt("enable_irq", "", 682), Stmt("osDelay", 2, 684) >>
       \o ReadRecord("MASKED", "PUT", "ONE_OR_TWO", 687, 691, 694))
  \o Ph("cleanup", AuxiliaryPinUninit \o PinUnderTestUninit)

DV_GPIO_SetOutput ==
     Ph("probe", PinUnderTestIsAvailable \o AuxiliaryPinIsAvailable)
  \o Ph("body",
          PinUnderTestInit \o AuxiliaryPinInit
       \o << Call("SetDirection",  "PUT", "OUTPUT",    "assert", 723),
             Call("SetOutputMode", "PUT", "PUSH_PULL", "assert", 726) >>
       \o AuxiliaryPinConfigInput
       \o << Call("SetOutput", "PUT", 0, "none", 732),
             Stmt("osDelay", 2, 734),
             Call("GetInput", "AUX", 0, "assert", 737),
             Call("SetOutput", "PUT", 1, "none", 740),
             Stmt("osDelay", 2, 742),
             Call("GetInput", "AUX", 1, "assert", 745) >>)
  \o Ph("cleanup", AuxiliaryPinUninit \o PinUnderTestUninit)

DV_GPIO_GetInput ==
     Ph("probe", PinUnderTestIsAvailable \o AuxiliaryPinIsAvailable)
  \o Ph("body",
          PinUnderTestInit \o AuxiliaryPinInit
       \o << Call("SetDirection", "PUT", "INPUT", "assert", 774) >>
       \o AuxiliaryPinConfigOutput
       \o AuxiliaryPinSetOutput(0)
       \o << Stmt("osDelay", 2, 782), Call("GetInput", "PUT", 0, "assert", 785) >>
       \o AuxiliaryPinSetOutput(1)
       \o << Stmt("osDelay", 2, 790), Call("GetInput", "PUT", 1, "assert", 793) >>)
  \o Ph("cleanup", AuxiliaryPinUninit \o PinUnderTestUninit)

----------------------------------------------------------------------------
(* DV_GPIO.MC.c: helper functions *)

\* (Variant for checking C23: the output latch is always written 0.)
PinPull_Low(pin, o) ==
  << Call("SetDirection",    pin, "OUTPUT",    "none", 63),
     Call("SetOutputMode",   pin, "PUSH_PULL", "none", 64),
     Call("SetPullResistor", pin, "NONE",      "none", 65),
     Call("SetOutput",       pin, 0,           "none", 66) >>

PinPull(pin, o) ==
  << Call("SetDirection",    pin, "OUTPUT",    "none", 63),
     Call("SetOutputMode",   pin, "PUSH_PULL", "none", 64),
     Call("SetPullResistor", pin, "NONE",      "none", 65),
     Call("SetOutput",       pin, o,           "none", 66) >>

PinDisable(pin) ==
  << Call("SetOutput",     pin, 0,            "none", 71),
     Call("SetDirection",  pin, "INPUT",      "none", 72),
     Call("SetOutputMode", pin, "OPEN_DRAIN", "none", 73) >>

DriverInit ==
  << Call("Setup", "PUT", "NULL", "none", 78),
     Call("Setup", "AUX", "NULL", "none", 79) >>

IsPinUnderTestAvailable == << Call("Setup", "PUT", "NULL", "probe", 92) >>

\* Defined in DV_GPIO.MC.c and called by none of its procedures.
IsAuxiliaryPinAvailable == << Call("Setup", "AUX", "NULL", "probe", 110) >>

----------------------------------------------------------------------------
(* DV_GPIO.MC.c: test procedures *)

MC_GPIO_Setup ==
     Ph("probe", IsPinUnderTestAvailable)
  \o Ph("body", << Call("Setup", "PUT", "NULL",          "assert", 166),
                   Call("Setup", "PUT", "GPIO_DrvEvent", "assert", 169) >>)
  \o Ph("cleanup", << Call("Setup", "PUT", "NULL", "none", 171) >>)

MC_GPIO_SetDirection ==
     Ph("probe", IsPinUnderTestAvailable)
  \o Ph("body", << Call("Setup",        "PUT", "NULL",   "assert", 193),
                   Call("SetDirection", "PUT", "INPUT",  "assert", 196),
                   Call("SetDirection", "PUT", "OUTPUT", "assert", 199) >>)
  \o Ph("cleanup", << Call("Setup", "PUT", "NULL", "none", 201) >>)

MC_GPIO_SetOutputMode ==
     Ph("probe", IsPinUnderTestAvailable)
  \o Ph("body", << Call("Setup",         "PUT", "NULL",       "assert", 223),
                   Call("SetOutputMode", "PUT", "PUSH_PULL",  "assert", 226),
                   Call("SetOutputMode", "PUT", "OPEN_DRAIN", "assert", 229) >>)
  \o Ph("cleanup", << Call("Setup", "PUT", "NULL", "none", 231) >>)

MC_GPIO_SetPullResistor ==
     Ph("probe", IsPinUnderTestAvailable)
  \o Ph("body", << Call("Setup",           "PUT", "NULL", "assert", 254),
                   Call("SetPullResistor", "PUT", "NONE", "assert", 257),
                   Call("SetPullResistor", "PUT", "UP",   "assert", 260),
                   Call("SetPullResistor", "PUT", "DOWN", "assert", 263) >>)
  \o Ph("cleanup", << Call("Setup", "PUT", "NULL", "none", 265) >>)

MC_GPIO_SetEventTrigger ==
     Ph("probe", IsPinUnderTestAvailable)
  \o Ph("api", << Call("Setup",           "PUT", "NULL",    "assert", 308),
                  Call("SetEventTrigger", "PUT", "NONE",    "assert", 311),
                  Call("SetEventTrigger", "PUT", "RISING",  "assert", 314),
                  Call("SetEventTrigger", "PUT", "FALLING", "assert", 317),
                  Call("SetEventTrigger", "PUT", "EITHER",  "assert", 320) >>)
  \o Ph("init", << Call("Setup", "AUX", "NULL", "none", 323) >> \o PinPull("AUX", 0))
  \o Ph("rising",
          ResetRecord(328)
       \o << Call("SetEventTrigger", "PUT", "RISING", "assert", 333) >>
       \o PinPull("AUX", 1)
       \o << Stmt("osDelay", 100, 338) >>
       \o ReadRecord("RISING", "PUT", "ONE", 341, 344, 347))
  \o Ph("falling",
          ResetRecord(349)
       \o << Call("SetEventTrigger", "PUT", "FALLING", "assert", 354) >>
       \o PinPull("AUX", 0)
       \o << Stmt("osDelay", 100, 359) >>
       \o ReadRecord("FALLING", "PUT", "ONE", 362, 365, 368))
  \o Ph("either_rising",
          ResetRecord(370)
       \o << Call("SetEventTrigger", "PUT", "EITHER", "assert", 375) >>
       \o PinPull("AUX", 1)
       \o << Stmt("osDelay", 100, 380) >>
       \o ReadRecord("RISING_OR_EITHER", "PUT", "ONE", 383, 387, 390))
  \o Ph("either_falling",
          ResetRecord(392)
       \o PinPull("AUX", 0)
       \o << Stmt("osDelay", 100, 399) >>
       \o ReadRecord("FALLING_OR_EITHER", "PUT", "ONE", 402, 406, 409))
  \o Ph("none",
          ResetRecord(411)
       \o << Call("SetEventTrigger", "PUT", "NONE", "assert", 416) >>
       \o PinPull("AUX", 1)
       \o PinPull("AUX", 0)
       \o << Stmt("osDelay", 100, 422) >>
       \o ReadRecord("ZERO", "ZERO", "ZERO", 425, 428, 431))
  \o Ph("masked",
          << Call("SetEventTrigger", "PUT", "EITHER", "assert", 434) >>
       \o ResetRecord(436)
       \o << Stmt("disable_irq", "", 440) >>
       \o PinPull("AUX", 1)
       \o PinPull("AUX", 0)
       \o << Stmt("enable_irq", "", 446), Stmt("osDelay", 100, 448) >>
       \o ReadRecord("MASKED", "PUT", "ONE_OR_TWO", 451, 455, 458))
  \o Ph("cleanup",
          << Call("SetEventTrigger", "PUT", "NONE", "none", 461) >>
       \o PinDisable("AUX"))

MC_GPIO_SetOutput ==
     Ph("body",
          DriverInit
       \o << Call("SetDirection",  "PUT", "OUTPUT",     "assert", 490),
             Call("SetOutputMode", "PUT", "PUSH_PULL",  "assert", 493),
             Call("SetOutput",     "PUT", 0,            "none",   496),
             Call("GetInput",      "PUT", 0,            "assert", 499),
             Call("SetOutput",     "PUT", 1,            "none",   503),
             Call("GetInput",      "PUT", 1,            "assert", 506),
             Call("SetOutputMode", "PUT", "OPEN_DRAIN", "assert", 510),
             Call("SetOutput",     "PUT", 0,            "none",   513),
             Call("GetInput",      "PUT", 0,            "assert", 516) >>)

MC_GPIO_GetInput ==
     Ph("body",
          DriverInit
       \o << Call("SetDirection",    "PUT", "INPUT", "assert", 549),
             Call("SetPullResistor", "PUT", "NONE",  "assert", 552) >>
       \o PinPull("AUX", 0)
       \o << Stmt("osDelay", 100, 557), Call("GetInput", "PUT", 0, "assert", 560) >>
       \o PinPull("AUX", 1)
       \o << Stmt("osDelay", 100, 566), Call("GetInput", "PUT", 1, "assert", 569) >>
       \o PinDisable("AUX")
       \o << Call("SetPullResistor", "PUT", "DOWN", "assert", 576),
             Stmt("osDelay", 100, 578),
             Call("GetInput", "PUT", 0, "assert", 581) >>
       \o PinPull("AUX", 1)
       \o << Stmt("osDelay", 100, 587), Call("GetInput", "PUT", 1, "assert", 590) >>
       \o PinDisable("AUX")
       \o << Call("SetPullResistor", "PUT", "UP", "assert", 597),
             Stmt("osDelay", 100, 599),
             Call("GetInput", "PUT", 1, "assert", 602) >>
       \o PinPull("AUX", 0)
       \o << Stmt("osDelay", 100, 608), Call("GetInput", "PUT", 0, "assert", 611) >>)
  \o Ph("cleanup", PinDisable("AUX"))

----------------------------------------------------------------------------
(* The suite *)

Procs ==
  {"GPIO_Setup", "GPIO_SetDirection", "GPIO_SetOutputMode", "GPIO_SetPullResistor",
   "GPIO_SetEventTrigger", "GPIO_SetOutput", "GPIO_GetInput"}

\* The statements of procedure p in the file v.
Code(v, p) ==
  IF v = "DV"
  THEN CASE p = "GPIO_Setup"           -> DV_GPIO_Setup
         [] p = "GPIO_SetDirection"    -> DV_GPIO_SetDirection
         [] p = "GPIO_SetOutputMode"   -> DV_GPIO_SetOutputMode
         [] p = "GPIO_SetPullResistor" -> DV_GPIO_SetPullResistor
         [] p = "GPIO_SetEventTrigger" -> DV_GPIO_SetEventTrigger
         [] p = "GPIO_SetOutput"       -> DV_GPIO_SetOutput
         [] p = "GPIO_GetInput"        -> DV_GPIO_GetInput
         [] OTHER                      -> << >>
  ELSE CASE p = "GPIO_Setup"           -> MC_GPIO_Setup
         [] p = "GPIO_SetDirection"    -> MC_GPIO_SetDirection
         [] p = "GPIO_SetOutputMode"   -> MC_GPIO_SetOutputMode
         [] p = "GPIO_SetPullResistor" -> MC_GPIO_SetPullResistor
         [] p = "GPIO_SetEventTrigger" -> MC_GPIO_SetEventTrigger
         [] p = "GPIO_SetOutput"       -> MC_GPIO_SetOutput
         [] p = "GPIO_GetInput"        -> MC_GPIO_GetInput
         [] OTHER                      -> << >>

Prog    == Code(variant, proc)
EndPc   == Len(Prog) + 1
Running == pc < EndPc
Cur     == Prog[pc]
At(op)  == Running /\ Cur.op = op

----------------------------------------------------------------------------
(* Test framework *)

\* (Variant for checking C9: any failed check ends the procedure.)
AfterCheck_Abort(chk, passed, here, end) ==
  IF ~passed THEN end ELSE here + 1

\* Where a procedure goes on after a checked call at statement here: a failed
\* availability probe is "TEST_FAIL(); return;", a failed TEST_ASSERT only records.
AfterCheck(chk, passed, here, end) ==
  IF chk = "probe" /\ ~passed THEN end ELSE here + 1

\* (Variant for checking C4: the either-edge assertions test bits of the mask
\* instead of comparing the mask.)
EventAssert_Bits(kind, ev) ==
  CASE kind = "RISING"  -> ev = ARM_GPIO_EVENT_RISING_EDGE
    [] kind = "FALLING" -> ev = ARM_GPIO_EVENT_FALLING_EDGE
    [] kind = "RISING_OR_EITHER" ->
         BitAnd(ev, BitOr(ARM_GPIO_EVENT_RISING_EDGE, ARM_GPIO_EVENT_EITHER_EDGE)) # 0
    [] kind = "FALLING_OR_EITHER" ->
         BitAnd(ev, BitOr(ARM_GPIO_EVENT_FALLING_EDGE, ARM_GPIO_EVENT_EITHER_EDGE)) # 0
    [] kind = "ZERO" -> ev = 0
    [] kind = "MASKED" ->
         (BitAnd(ev, BitOr(ARM_GPIO_EVENT_RISING_EDGE, ARM_GPIO_EVENT_FALLING_EDGE)) # 0)
         \/ (ev = ARM_GPIO_EVENT_EITHER_EDGE)

\* The assertion expressions on the event record.
EventAssert(kind, ev) ==
  CASE kind = "RISING"  -> ev = ARM_GPIO_EVENT_RISING_EDGE
    [] kind = "FALLING" -> ev = ARM_GPIO_EVENT_FALLING_EDGE
    [] kind = "RISING_OR_EITHER" ->
         (ev = ARM_GPIO_EVENT_RISING_EDGE) \/ (ev = ARM_GPIO_EVENT_EITHER_EDGE)
    [] kind = "FALLING_OR_EITHER" ->
         (ev = ARM_GPIO_EVENT_FALLING_EDGE) \/ (ev = ARM_GPIO_EVENT_EITHER_EDGE)
    [] kind = "ZERO" -> ev = 0
    [] kind = "MASKED" ->
         (BitAnd(ev, BitOr(ARM_GPIO_EVENT_RISING_EDGE, ARM_GPIO_EVENT_FALLING_EDGE)) # 0)
         \/ (ev = ARM_GPIO_EVENT_EITHER_EDGE)

PinAssert(kind, pin, id) ==
  CASE kind = "PUT"  -> pin = id
    [] kind = "ZERO" -> pin = 0

CountAssert(kind, cnt) ==
  CASE kind = "ONE"        -> cnt = 1
    [] kind = "ZERO"       -> cnt = 0
    [] kind = "ONE_OR_TWO" -> (cnt = 1) \/ (cnt = 2)

\* Whether the assertion statement ins passes on the record rec.
RecordAssert(ins, rec, id) ==
  CASE ins.op = "assert_event" -> EventAssert(ins.arg, rec.event)
    [] ins.op = "assert_pin"   -> PinAssert(ins.arg, rec.pin, id)
    [] ins.op = "assert_cnt"   -> CountAssert(ins.arg, rec.cnt)

----------------------------------------------------------------------------
(* Driver facade and the wired pin pair *)

Hw == [dir |-> dir, mode |-> mode, pull |-> pull, out |-> out, trig |-> trig, cb |-> cb]

\* Statuses the driver may return.
Status == IF conf THEN {"OK"} ELSE {"OK", "ERR"}

DrvSetup(h, pin, cbArg) ==
  LET h1 == IF pin = "PUT" THEN [h EXCEPT !.cb = (cbArg = "GPIO_DrvEvent")] ELSE h
  IN  IF setupResets
      THEN [h1 EXCEPT !.dir[pin]  = "INPUT",
                      !.mode[pin] = "PUSH_PULL",
                      !.pull[pin] = "NONE",
                      !.trig      = IF pin = "PUT" THEN "NONE" ELSE @]
      ELSE h1

DrvSetDirection(h, pin, d)    == [h EXCEPT !.dir[pin] = d]
DrvSetOutputMode(h, pin, m)   == [h EXCEPT !.mode[pin] = m]
DrvSetPullResistor(h, pin, r) == [h EXCEPT !.pull[pin] = r]
\* (Variant for checking C3: a driver that does not disarm on trigger NONE.)
DrvSetEventTrigger_NoDisarm(h, pin, t) ==
  IF pin = "PUT" /\ t # "NONE" THEN [h EXCEPT !.trig = t] ELSE h

DrvSetEventTrigger(h, pin, t) == IF pin = "PUT" THEN [h EXCEPT !.trig = t] ELSE h
DrvSetOutput(h, pin, v)       == [h EXCEPT !.out[pin] = v]

\* A pin drives the line when it is an output, unless it is open-drain and high.
Drives(h, p) == h.dir[p] = "OUTPUT" /\ (h.mode[p] = "PUSH_PULL" \/ h.out[p] = 0)

\* Level at pin p: its own drive, else the other pin's drive through the
\* resistor, else a pull resistor, else the level the line had (prev).
LevelAt(h, p, prev) ==
  LET q == Other(p)
  IN  IF Drives(h, p) THEN h.out[p]
      ELSE IF Drives(h, q) THEN h.out[q]
      ELSE IF h.pull[p] = "UP" THEN 1
      ELSE IF h.pull[p] = "DOWN" THEN 0
      ELSE IF h.pull[q] = "UP" THEN 1
      ELSE IF h.pull[q] = "DOWN" THEN 0
      ELSE prev

\* Levels GetInput may return for pin p.
DrvGetInput(h, p, prev) == IF conf THEN {LevelAt(h, p, prev)} ELSE {0, 1}

\* Event flags the driver may report for an edge in direction d with trigger t armed.
EdgeEvents(t, d) ==
  CASE t = "RISING"  -> IF d = "rising"  THEN {ARM_GPIO_EVENT_RISING_EDGE}  ELSE {}
    [] t = "FALLING" -> IF d = "falling" THEN {ARM_GPIO_EVENT_FALLING_EDGE} ELSE {}
    [] t = "EITHER"  -> {IF d = "rising" THEN ARM_GPIO_EVENT_RISING_EDGE
                                         ELSE ARM_GPIO_EVENT_FALLING_EDGE,
                         ARM_GPIO_EVENT_EITHER_EDGE}
    [] OTHER         -> {}

\* The pending callbacks after the line went from level old to level new with
\* trigger t armed and a callback registered (reg): one more callback per
\* matching edge; while interrupts are masked the edge may instead merge into
\* the callback already pending. Without a registered callback none is raised.
Raised(q, old, new, t, reg, id, masked) ==
  LET evs == IF old = new \/ ~reg THEN {}
             ELSE EdgeEvents(t, IF new > old THEN "rising" ELSE "falling")
      n   == Len(q)
  IN  IF evs = {} THEN {q}
      ELSE {Append(q, [pin |-> id, event |-> e, stale |-> FALSE]) : e \in evs}
           \cup (IF masked /\ n > 0
                 THEN {[q EXCEPT ![n].event = m] :
                         m \in {q[n].event} \cup evs \cup {BitOr(q[n].event, e) : e \in evs}}
                 ELSE {})

----------------------------------------------------------------------------
(* Initial state: both pins at their power-on defaults, the record zeroed *)

NoVerdict ==
  [kind |-> "none", ph |-> "", arg |-> "", ev |-> 0, pin |-> 0,
   rec |-> [event |-> 0, pin |-> 0, cnt |-> 0], pass |-> FALSE]

PowerOn ==
  /\ proc = "none" /\ pc = 1
  /\ gpio_event = 0 /\ gpio_pin = 0
  /\ dir  = [p \in Pins |-> "INPUT"]
  /\ mode = [p \in Pins |-> "PUSH_PULL"]
  /\ pull = [p \in Pins |-> "NONE"]
  /\ out  = [p \in Pins |-> 0]
  /\ trig = "NONE" /\ cb = FALSE /\ lvl = 0
  /\ irq = TRUE /\ pend = << >>
  /\ first = TRUE /\ failed = FALSE /\ log = << >>
  /\ probed = [p \in Pins |-> "none"]
  /\ tainted = FALSE /\ hist = << >> /\ preReset = "none" /\ stimTrig = "NONE"
  /\ moved = FALSE
  /\ verdict = NoVerdict

Init ==
  /\ variant \in Variants
  /\ conf \in BOOLEAN
  /\ setupResets \in BOOLEAN
  /\ put \in PinIds
  /\ gpio_irq_cnt = 0 /\ ncb = 0 /\ allEvents = 0
  /\ PowerOn

----------------------------------------------------------------------------
(* Sequencer steps *)

\* The test runner calls the next procedure once the current one has returned.
Start(p) ==
  /\ ~Running
  /\ proc' = p /\ pc' = 1
  /\ first' = (proc = "none")
  /\ failed' = FALSE /\ log' = << >>
  /\ probed' = [x \in Pins |-> "none"]
  /\ hist' = << >> /\ preReset' = "none" /\ stimTrig' = "NONE"
  /\ moved' = moved
  /\ UNCHANGED <<cfgVars, recVars, pinVars, irq, pend, tainted, verdict>>

\* Common part of every statement that calls the driver: h2 is the pin state the
\* call leaves, passed whether the statement's check of the result passed, tag
\* what the call is to the edge-trigger scenario ("" when nothing), st the
\* status the call returned.
Issue(h2, passed, tag, st) ==
  LET new == LevelAt(h2, "PUT", lvl)
  IN  /\ dir' = h2.dir /\ mode' = h2.mode /\ pull' = h2.pull /\ out' = h2.out
      /\ trig' = h2.trig /\ cb' = h2.cb
      /\ lvl' = new
      /\ pend' \in Raised(pend, lvl, new, h2.trig, h2.cb, put, ~irq)
      /\ Len(pend') <= MaxPend
      /\ log' = Append(log, pc)
      /\ failed' = (failed \/ ~passed)
      /\ pc' = AfterCheck(Cur.chk, passed, pc, EndPc)
      /\ hist' = IF tag = "" \/ proc # "GPIO_SetEventTrigger" THEN hist
                 ELSE Append(hist, tag)
      /\ stimTrig' = IF tag = "stim" THEN trig ELSE stimTrig
      /\ moved' = (moved \/ new # lvl)
      /\ probed' = IF Cur.op = "Setup" /\ probed[Cur.pin] = "none"
                   THEN [probed EXCEPT ![Cur.pin] = st] ELSE probed
      /\ UNCHANGED <<cfgVars, recVars, proc, irq, first, tainted, preReset, verdict>>

Passed(chk, st) == chk = "none" \/ st = "OK"

ExecSetup ==
  /\ At("Setup")
  /\ \E st \in Status :
       Issue(DrvSetup(Hw, Cur.pin, Cur.arg), Passed(Cur.chk, st), "", st)

ExecSetDirection ==
  /\ At("SetDirection")
  /\ \E st \in Status :
       Issue(DrvSetDirection(Hw, Cur.pin, Cur.arg), Passed(Cur.chk, st), "", st)

ExecSetOutputMode ==
  /\ At("SetOutputMode")
  /\ \E st \in Status :
       Issue(DrvSetOutputMode(Hw, Cur.pin, Cur.arg), Passed(Cur.chk, st), "", st)

ExecSetPullResistor ==
  /\ At("SetPullResistor")
  /\ \E st \in Status :
       Issue(DrvSetPullResistor(Hw, Cur.pin, Cur.arg), Passed(Cur.chk, st), "", st)

ExecSetEventTrigger ==
  /\ At("SetEventTrigger")
  /\ \E st \in Status :
       Issue(DrvSetEventTrigger(Hw, Cur.pin, Cur.arg), Passed(Cur.chk, st), Cur.arg, st)

\* SetOutput returns nothing.
ExecSetOutput ==
  /\ At("SetOutput")
  /\ Issue(DrvSetOutput(Hw, Cur.pin, Cur.arg), TRUE,
           IF Cur.pin = "AUX" THEN "stim" ELSE "", "OK")

ExecGetInput ==
  /\ At("GetInput")
  /\ \E v \in DrvGetInput(Hw, Cur.pin, lvl) :
       Issue(Hw, Cur.chk = "none" \/ v = Cur.arg, "", "OK")

\* The settle delay: it ends after every callback raised before it has run.
ExecDelay ==
  /\ At("osDelay")
  /\ pend = << >>
  /\ pc' = pc + 1
  /\ hist' = IF proc = "GPIO_SetEventTrigger" THEN Append(hist, "settle") ELSE hist
  /\ moved' = FALSE
  /\ UNCHANGED <<cfgVars, recVars, pinVars, proc, irq, pend, first, probed, failed, log,
                 tainted, preReset, stimTrig, verdict>>

\* One of the three assignments of a reset of the record. The first begins the
\* reset: callbacks still pending then belong to transitions older than it.
ExecClear ==
  /\ Running /\ Cur.op \in {"clr_event", "clr_pin", "clr_cnt"}
  /\ gpio_event'   = IF Cur.op = "clr_event" THEN 0 ELSE gpio_event
  /\ gpio_pin'     = IF Cur.op = "clr_pin"   THEN 0 ELSE gpio_pin
  /\ gpio_irq_cnt' = IF Cur.op = "clr_cnt"   THEN 0 ELSE gpio_irq_cnt
  /\ ncb'          = IF Cur.op = "clr_cnt"   THEN 0 ELSE ncb
  /\ allEvents'    = IF Cur.op = "clr_event" THEN 0 ELSE allEvents
  /\ IF Cur.op = "clr_event"
     THEN /\ pend' = [i \in 1..Len(pend) |-> [pend[i] EXCEPT !.stale = TRUE]]
          /\ tainted' = FALSE
          /\ preReset' = IF hist = << >> THEN "none" ELSE hist[Len(hist)]
          /\ hist' = << >>
     ELSE UNCHANGED <<pend, tainted, preReset, hist>>
  /\ pc' = pc + 1
  /\ UNCHANGED <<cfgVars, pinVars, proc, irq, first, probed, failed, log, stimTrig, moved, verdict>>

\* TEST_ASSERT_MESSAGE on one field of the record.
ExecAssertRecord ==
  /\ Running /\ Cur.op \in {"assert_event", "assert_pin", "assert_cnt"}
  /\ LET passed == RecordAssert(Cur, Rec, put)
     IN  /\ failed' = (failed \/ ~passed)
         /\ pc' = AfterCheck("assert", passed, pc, EndPc)
  /\ UNCHANGED <<cfgVars, recVars, pinVars, proc, irq, pend, first, probed, log, tainted,
                 hist, preReset, stimTrig, moved, verdict>>

\* (Variant for checking C16: __disable_irq masks nothing.)
ExecDisableIrq_Nop ==
  /\ At("disable_irq")
  /\ pc' = pc + 1
  /\ UNCHANGED <<cfgVars, recVars, pinVars, proc, irq, pend, first, probed, failed, log,
                 tainted, hist, preReset, stimTrig, moved, verdict>>

ExecDisableIrq ==
  /\ At("disable_irq")
  /\ irq' = FALSE
  /\ pc' = pc + 1
  /\ UNCHANGED <<cfgVars, recVars, pinVars, proc, pend, first, probed, failed, log, tainted,
                 hist, preReset, stimTrig, moved, verdict>>

\* (Variant for checking C18: __enable_irq leaves interrupts disabled.)
ExecEnableIrq_Nop ==
  /\ At("enable_irq")
  /\ pc' = pc + 1
  /\ UNCHANGED <<cfgVars, recVars, pinVars, proc, irq, pend, first, probed, failed, log,
                 tainted, hist, preReset, stimTrig, moved, verdict>>

ExecEnableIrq ==
  /\ At("enable_irq")
  /\ irq' = TRUE
  /\ pc' = pc + 1
  /\ UNCHANGED <<cfgVars, recVars, pinVars, proc, pend, first, probed, failed, log, tainted,
                 hist, preReset, stimTrig, moved, verdict>>

\* The driver runs the oldest pending callback: it calls the callback registered
\* on the pin under test, if one is registered.
Deliver ==
  /\ irq /\ pend # << >>
  /\ LET e == Head(pend)
         r == GPIO_DrvEvent(Rec, e.pin, e.event)
     IN  IF cb
         THEN /\ gpio_event' = r.event /\ gpio_pin' = r.pin /\ gpio_irq_cnt' = r.cnt
              /\ ncb' = ncb + 1
              /\ allEvents' = BitOr(allEvents, e.event)
              /\ tainted' = (tainted \/ e.stale)
         ELSE UNCHANGED <<recVars, tainted>>
  /\ pend' = Tail(pend)
  /\ UNCHANGED <<cfgVars, pinVars, proc, pc, irq, first, probed, failed, log,
                 hist, preReset, stimTrig, moved, verdict>>

Next ==
  \/ \E p \in Procs : Start(p)
  \/ ExecSetup
  \/ ExecSetDirection
  \/ ExecSetOutputMode
  \/ ExecSetPullResistor
  \/ ExecSetEventTrigger
  \/ ExecSetOutput
  \/ ExecGetInput
  \/ ExecDelay
  \/ ExecClear
  \/ ExecAssertRecord
  \/ ExecDisableIrq
  \/ ExecEnableIrq
  \/ Deliver

Spec == Init /\ [][Next]_vars

\* The sequencer executes the next statement of the current procedure.
Statement ==
  \/ ExecSetup
  \/ ExecSetDirection
  \/ ExecSetOutputMode
  \/ ExecSetPullResistor
  \/ ExecSetEventTrigger
  \/ ExecSetOutput
  \/ ExecGetInput
  \/ ExecDelay
  \/ ExecClear
  \/ ExecAssertRecord
  \/ ExecDisableIrq
  \/ ExecEnableIrq

\* The suite when every driver call and every delay returns: the sequencer
\* keeps executing statements, and the driver runs the callbacks it has
\* pending while interrupts are enabled.
SpecLive == Init /\ [][Next]_vars /\ WF_vars(Statement) /\ WF_vars(Deliver)

\* The bound on pending callbacks is never reached, so it cuts nothing off.
PendBelowBound == Len(pend) < MaxPend

----------------------------------------------------------------------------
(* The event recorder on its own: the callback, the reset and the assertion   *)
(* expressions applied to the record, for any number of callbacks with any    *)
(* 32-bit event argument.  verdict keeps the record as it was before the step *)
(* and the step's arguments.                                                  *)

\* Event arguments the driver may pass: the three flags, a bit that is no flag,
\* and bits above the width of the latched mask.
Events32 ==
  {ARM_GPIO_EVENT_RISING_EDGE, ARM_GPIO_EVENT_FALLING_EDGE, ARM_GPIO_EVENT_EITHER_EDGE,
   2^3, 2^8, 2^30 + ARM_GPIO_EVENT_RISING_EDGE}

\* The assertion statements on the record in GPIO_SetEventTrigger of file v.
RecordAsserts(v) ==
  LET c == Code(v, "GPIO_SetEventTrigger")
  IN  {i \in 1..Len(c) : c[i].op \in {"assert_event", "assert_pin", "assert_cnt"}}

\* Numbers of callbacks (with pin 0 and no event flag) already run when the
\* recorder is first looked at: none, and two short of the width of the count.
StartCounts == {0, 2^8 - 2}

InitFn ==
  /\ variant \in Variants
  /\ conf = TRUE
  /\ setupResets = TRUE
  /\ put \in PinIds
  /\ ncb \in StartCounts
  /\ gpio_irq_cnt = U8(ncb)
  /\ allEvents = 0
  /\ PowerOn

\* What no step of the recorder touches.
FnFrame ==
  UNCHANGED <<cfgVars, pinVars, proc, pc, irq, pend, first, probed, failed, log,
              tainted, hist, preReset, stimTrig, moved>>

\* The driver calls GPIO_DrvEvent(pin, event).
FnCallback ==
  \E pin \in PinIds, event \in Events32 :
    LET r == GPIO_DrvEvent(Rec, pin, event)
    IN  /\ \E s \in StartCounts : s <= ncb /\ ncb < s + MaxCalls
        /\ gpio_event' = r.event /\ gpio_pin' = r.pin /\ gpio_irq_cnt' = r.cnt
        /\ ncb' = ncb + 1
        /\ allEvents' = BitOr(allEvents, event)
        /\ verdict' = [NoVerdict EXCEPT !.kind = "callback", !.ev = event,
                                        !.pin = pin, !.rec = Rec]
        /\ FnFrame

\* The sequencer resets the record.
FnReset ==
  /\ Rec # NoVerdict.rec
  /\ gpio_event' = 0 /\ gpio_pin' = 0 /\ gpio_irq_cnt' = 0 /\ ncb' = 0
  /\ allEvents' = 0
  /\ verdict' = [NoVerdict EXCEPT !.kind = "reset", !.rec = Rec]
  /\ FnFrame

\* One assertion statement of GPIO_SetEventTrigger is evaluated on the record.
FnAssert ==
  \E i \in RecordAsserts(variant) :
    LET ins == Code(variant, "GPIO_SetEventTrigger")[i]
    IN  /\ verdict' = [NoVerdict EXCEPT !.kind = ins.op, !.ph = ins.ph, !.arg = ins.arg,
                                        !.rec = Rec,
                                        !.pass = RecordAssert(ins, Rec, put)]
        /\ UNCHANGED recVars
        /\ FnFrame

NextFn ==
  \/ FnCallback
  \/ FnReset
  \/ FnAssert

SpecFn == InitFn /\ [][NextFn]_vars

----------------------------------------------------------------------------
(* Claims *)

\* Bit i of x.
Bit(x, i) == (x \div (2^i)) % 2

\* C1 (as amended): one invocation of GPIO_DrvEvent(pin, event) changes the
\* record from (mask, lastPin, count) to ((mask OR event) mod 2^8, pin,
\* (count + 1) mod 2^8): each of the eight mask bits is set afterwards exactly
\* when it was latched before or is set in the event, so no latched flag is
\* cleared; lastPin becomes pin whatever it was; the count wraps at 2^8.
C1_CallbackUpdatesRecord ==
  verdict.kind = "callback" =>
    /\ gpio_event \in 0..255
    /\ \A i \in 0..7 :
         (Bit(gpio_event, i) = 1) <=>
           (Bit(verdict.rec.event, i) = 1 \/ Bit(verdict.ev, i) = 1)
    /\ gpio_pin = verdict.pin
    /\ gpio_irq_cnt = (verdict.rec.cnt + 1) % 256

\* C1 as stated: the record becomes (mask OR event, pin, count + 1).
C1_AsStated ==
  verdict.kind = "callback" =>
    /\ gpio_event = BitOr(verdict.rec.event, verdict.ev)
    /\ gpio_pin = verdict.pin
    /\ gpio_irq_cnt = verdict.rec.cnt + 1

\* C1 witness: a callback ran on a record with a flag latched, a non-zero
\* lastPin and the count at 255; lastPin was overwritten and the count wrapped.
C1_Witness ==
  /\ verdict.kind = "callback"
  /\ verdict.rec.event # 0
  /\ verdict.rec.pin # 0 /\ gpio_pin # verdict.rec.pin
  /\ verdict.rec.cnt = 255 /\ gpio_irq_cnt = 0

----------------------------------------------------------------------------
(* Statements the claims about the edge-trigger scenario speak of *)

RecordReads == {"assert_event", "assert_pin", "assert_cnt"}

\* The sequencer is in phase ph of GPIO_SetEventTrigger, about to evaluate one
\* of the three assertions on the record (the settle delay is over).
Reading(ph) ==
  /\ proc = "GPIO_SetEventTrigger" /\ Running
  /\ Cur.ph = ph /\ Cur.op \in RecordReads

\* The three assertions of phase ph have been evaluated: the next statement is
\* the first after the phase's read.
HasRead(ph) ==
  /\ proc = "GPIO_SetEventTrigger" /\ pc > 1
  /\ Prog[pc - 1].ph = ph /\ Prog[pc - 1].op = "assert_cnt"

\* C2: GPIO_SetEventTrigger of DV_GPIO.c, run from power-on defaults against a
\* conforming driver: in the rising phase and in the falling phase (reset, arm
\* that direction, one transition in that direction on the auxiliary pin,
\* settle delay) the record the assertions read is exactly (flag of the
\* direction, pin under test, 1), and none of the assertions up to the end of
\* the falling phase has failed.
C2_SingleEdgeRecord ==
  (variant = "DV" /\ conf /\ first) =>
    /\ Reading("rising") =>
         /\ Rec = [event |-> ARM_GPIO_EVENT_RISING_EDGE, pin |-> put, cnt |-> 1]
         /\ hist = <<"RISING", "stim", "settle">>
    /\ Reading("falling") =>
         /\ Rec = [event |-> ARM_GPIO_EVENT_FALLING_EDGE, pin |-> put, cnt |-> 1]
         /\ hist = <<"FALLING", "stim", "settle">>
    /\ (Reading("rising") \/ Reading("falling") \/ HasRead("falling")) => ~failed

\* C2 witness: the falling phase has been read after the rising phase, with
\* the record (FALLING_EDGE, pin under test, 1) and a pin id that is not 0.
C2_Witness ==
  /\ variant = "DV" /\ conf /\ first /\ put # 0
  /\ HasRead("falling") /\ ~failed
  /\ Rec = [event |-> ARM_GPIO_EVENT_FALLING_EDGE, pin |-> put, cnt |-> 1]

\* C3: in the trigger-none phase of GPIO_SetEventTrigger, in both files, against
\* a conforming driver: after reset, arming NONE, driving the auxiliary pin
\* 0 -> 1 and 1 -> 0 and the settle delay, the record read is (0, 0, 0) and no
\* callback has run since the reset.
C3_NoneRecord ==
  (conf /\ Reading("none")) =>
    /\ Rec = [event |-> 0, pin |-> 0, cnt |-> 0]
    /\ ncb = 0
    /\ hist = <<"NONE", "stim", "stim", "settle">>

\* C3 witness: the none phase is read in DV_GPIO.c, where GPIO_DrvEvent is
\* registered, after both transitions were driven, with the record zero.
C3_Witness ==
  /\ conf /\ variant = "DV" /\ cb /\ put # 0
  /\ Reading("none") /\ Cur.op = "assert_cnt"
  /\ hist = <<"NONE", "stim", "stim", "settle">>
  /\ Rec = [event |-> 0, pin |-> 0, cnt |-> 0]

\* The flag of the direction driven in either-edge sub-phase ph.
FlagOf(ph) ==
  IF ph = "either_rising" THEN ARM_GPIO_EVENT_RISING_EDGE ELSE ARM_GPIO_EVENT_FALLING_EDGE

\* C4: in the two either-edge sub-phases of GPIO_SetEventTrigger (both files)
\* the mask assertion passes if and only if the latched mask is exactly the
\* flag of the driven direction or exactly the either-edge flag, and the count
\* assertion passes if and only if the count is 1.
C4_EitherEdgeAssertions ==
  verdict.ph \in {"either_rising", "either_falling"} =>
    /\ verdict.kind = "assert_event" =>
         (verdict.pass <=>
            verdict.rec.event \in {FlagOf(verdict.ph), ARM_GPIO_EVENT_EITHER_EDGE})
    /\ verdict.kind = "assert_cnt" => (verdict.pass <=> verdict.rec.cnt = 1)

\* C4 witness: the mask assertion of the rising sub-phase was evaluated on the
\* mask RISING_EDGE | EITHER_EDGE and failed.
C4_Witness ==
  /\ verdict.ph = "either_rising" /\ verdict.kind = "assert_event"
  /\ verdict.rec.event = BitOr(ARM_GPIO_EVENT_RISING_EDGE, ARM_GPIO_EVENT_EITHER_EDGE)
  /\ ~verdict.pass

\* C5: in the masked-window phase of GPIO_SetEventTrigger of DV_GPIO.c, against
\* a conforming driver that delivers the two edges raised while interrupts are
\* masked as one merged callback or as two: the count read is 1 or 2, lastPin
\* is the pin under test, the mask assertion passes, and exactly that many
\* callbacks have run since the reset.
C5_MaskedWindow ==
  (variant = "DV" /\ conf /\ Reading("masked")) =>
    /\ gpio_irq_cnt \in {1, 2} /\ ncb = gpio_irq_cnt
    /\ gpio_pin = put
    /\ EventAssert("MASKED", gpio_event)
    /\ hist = <<"stim", "stim", "settle">> /\ irq

\* C5 witness: the masked-window phase is read with the two edges merged into
\* one callback that carries both edge flags.
C5_Witness ==
  /\ variant = "DV" /\ conf /\ put # 0 /\ Reading("masked")
  /\ gpio_irq_cnt = 1 /\ gpio_pin = put
  /\ gpio_event = BitOr(ARM_GPIO_EVENT_RISING_EDGE, ARM_GPIO_EVENT_FALLING_EDGE)

Triggers == {"NONE", "RISING", "FALLING", "EITHER"}

\* C6 (as amended): at every read of the record in GPIO_SetEventTrigger, in both
\* files, the phase has done, since its reset and in this order: arming (the
\* rising, falling, either-rising and none phases only), its stimulus on the
\* auxiliary pin, the settle delay.  The either-falling phase issues no
\* SetEventTrigger and is stimulated under the either-edge trigger its
\* predecessor armed; the masked-window phase arms either-edge as the last
\* call before its reset.
C6_PhaseOrder ==
  (proc = "GPIO_SetEventTrigger" /\ Running /\ Cur.op \in RecordReads) =>
    CASE Cur.ph = "rising" ->
           hist = <<"RISING", "stim", "settle">> /\ stimTrig = "RISING"
      [] Cur.ph = "falling" ->
           hist = <<"FALLING", "stim", "settle">> /\ stimTrig = "FALLING"
      [] Cur.ph = "either_rising" ->
           hist = <<"EITHER", "stim", "settle">> /\ stimTrig = "EITHER"
      [] Cur.ph = "either_falling" ->
           hist = <<"stim", "settle">> /\ stimTrig = "EITHER" /\ preReset = "settle"
      [] Cur.ph = "none" ->
           hist = <<"NONE", "stim", "stim", "settle">> /\ stimTrig = "NONE"
      [] Cur.ph = "masked" ->
           hist = <<"stim", "stim", "settle">> /\ stimTrig = "EITHER"
           /\ preReset = "EITHER"
      [] OTHER -> FALSE

\* C6 as stated: at every read the first call of the scenario since the reset
\* was a SetEventTrigger, and the last one before the reset was not.
C6_AsStated ==
  (proc = "GPIO_SetEventTrigger" /\ Running /\ Cur.op \in RecordReads) =>
    /\ hist # << >> /\ Head(hist) \in Triggers
    /\ preReset \notin Triggers

\* C6 witness: the either-falling phase of DV_GPIO.MC.c is read after a
\* stimulus and a settle delay with no SetEventTrigger since its reset.
C6_Witness ==
  /\ variant = "MC" /\ Reading("either_falling")
  /\ hist = <<"stim", "settle">> /\ stimTrig = "EITHER"

\* C7 as stated: at every read of the record in GPIO_SetEventTrigger, against a
\* conforming driver, no callback of a transition driven before the most
\* recent reset has run after that reset.
C7_AsStated ==
  (conf /\ proc = "GPIO_SetEventTrigger" /\ Running /\ Cur.op \in RecordReads) =>
    ~tainted

\* C8 as stated: when the first Setup call of a procedure on a pin returned a
\* status other than OK, the procedure has recorded a failure and returned, and
\* the only driver calls it issued are Setup calls.
C8_AsStated ==
  \A p \in Pins :
    probed[p] = "ERR" =>
      /\ failed /\ ~Running
      /\ \A i \in 1..Len(log) : Prog[log[i]].op = "Setup"

DriverOps ==
  {"Setup", "SetDirection", "SetOutputMode", "SetPullResistor", "SetEventTrigger",
   "SetOutput", "GetInput"}

\* The statements of c that call the driver, in program order.
DriverCalls(c) ==
  SelectSeq([i \in 1..Len(c) |-> i], LAMBDA i : c[i].op \in DriverOps)

IsPrefix(a, b) == Len(a) <= Len(b) /\ SubSeq(b, 1, Len(a)) = a

\* The procedure has returned from a failed availability probe.
ProbeFailed ==
  /\ ~Running /\ failed /\ log # << >>
  /\ Prog[log[Len(log)]].chk = "probe"

ContractProcs == Procs \ {"GPIO_SetEventTrigger"}

\* C9: in the six driver-contract procedures, in both files and whatever
\* statuses and levels the driver returns, the driver calls issued so far are
\* an initial part of the procedure's driver calls in program order (each
\* once, none skipped, none repeated), and a procedure that has returned has
\* either issued all of them, cleanup included, or returned from a failed
\* availability probe.
C9_FixedCallSequence ==
  proc \in ContractProcs =>
    /\ IsPrefix(log, DriverCalls(Prog))
    /\ ~Running => (log = DriverCalls(Prog) \/ ProbeFailed)

\* C9 witness: a driver-contract procedure with availability probes has
\* returned with a failed assertion and all its driver calls issued.
C9_Witness ==
  /\ proc \in ContractProcs /\ ~Running /\ failed
  /\ Prog[1].chk = "probe"
  /\ log = DriverCalls(Prog)

ScenarioPhases == {"rising", "falling", "either_rising", "either_falling", "none", "masked"}

\* C10 (as amended): in GPIO_SetEventTrigger, in both files, a failed assertion
\* is recorded and does not end the scenario: the driver calls issued so far
\* are an initial part of the procedure's driver calls in program order, and
\* once it has returned it has issued all of them - every phase armed and
\* stimulated, cleanup included - unless it returned from a failed
\* availability probe.
C10_ScenarioContinues ==
  proc = "GPIO_SetEventTrigger" =>
    /\ IsPrefix(log, DriverCalls(Prog))
    /\ ~Running => (log = DriverCalls(Prog) \/ ProbeFailed)

\* C10 as stated: once an assertion of GPIO_SetEventTrigger has failed, no
\* SetEventTrigger call and no drive of the auxiliary pin of a phase is issued.
C10_AsStated ==
  [][(/\ proc = "GPIO_SetEventTrigger" /\ failed /\ Running
      /\ Cur.ph \in ScenarioPhases
      /\ \/ Cur.op = "SetEventTrigger"
         \/ Cur.op = "SetOutput" /\ Cur.pin = "AUX")
     => log' = log]_vars

\* C10 witness: the assertion on the count of the rising phase failed, and the
\* procedure has gone on to the end with every later phase armed and stimulated.
C10_Witness ==
  /\ proc = "GPIO_SetEventTrigger" /\ ~Running /\ failed
  /\ variant = "MC" /\ conf
  /\ log = DriverCalls(Prog)

\* C11 as stated: in DV_GPIO.c, against the conforming driver, a procedure run
\* after any sequence of procedures records the assertion outcomes it records
\* when run first from power-on defaults.  Run first, no assertion of any
\* procedure fails (C11_RunFirstPasses), so the claim is that none ever fails.
C11_AsStated ==
  (variant = "DV" /\ conf) => ~failed

\* The reference of C11: a procedure of DV_GPIO.c run first from power-on
\* defaults against the conforming driver fails no assertion, whichever way
\* Setup treats the pin and whenever the callbacks are delivered.
C11_RunFirstPasses ==
  (variant = "DV" /\ conf /\ first) => ~failed

\* The asserted reads of the auxiliary pin that check a level written to the
\* pin under test as a push-pull output: those of GPIO_SetOutput and
\* GPIO_SetDirection and the first two of GPIO_SetOutputMode (DV_GPIO.c).
RoundTripRead ==
  /\ variant = "DV" /\ Running
  /\ Cur.op = "GetInput" /\ Cur.pin = "AUX" /\ Cur.chk = "assert"
  /\ \/ proc \in {"GPIO_SetOutput", "GPIO_SetDirection"}
     \/ proc = "GPIO_SetOutputMode" /\ Cur.ln < 395

\* C12 as stated: at each of those reads the pin under test is a push-pull
\* output whose latch holds the expected level L, the auxiliary pin is an
\* input, and the conforming driver reads L.
C12_AsStated ==
  (conf /\ RoundTripRead) =>
    /\ dir["PUT"] = "OUTPUT" /\ mode["PUT"] = "PUSH_PULL" /\ out["PUT"] = Cur.arg
    /\ dir["AUX"] = "INPUT"
    /\ DrvGetInput(Hw, "AUX", lvl) = {Cur.arg}

\* Driver calls that can change the level of the line.
LevelOps == {"SetOutput", "SetDirection", "SetOutputMode", "SetPullResistor"}

\* The last statement before statement n of c that is one of ops (0: none).
LastBefore(c, n, ops) ==
  LET W == {j \in 1..(n - 1) : c[j].op \in ops}
  IN  IF W = {} THEN 0 ELSE CHOOSE j \in W : \A k \in W : k <= j

\* Statement n of c is separated by a settle delay from the last driver call
\* before it that can change the line level.
Settled(c, n) ==
  LET j == LastBefore(c, n, LevelOps)
  IN  j > 0 => \E k \in (j + 1)..(n - 1) : c[k].op = "osDelay"

\* C13 as stated: in every procedure of both files, every asserted GetInput
\* is separated by an osDelay from the last preceding call that can change
\* the line level.
C13_AsStated ==
  (Running /\ Cur.op = "GetInput" /\ Cur.chk = "assert") => Settled(Prog, pc)

\* The reads of the pin under test in the pull-resistor checks: GPIO_SetPullResistor
\* of DV_GPIO.c and GPIO_GetInput of DV_GPIO.MC.c.
PullRead ==
  /\ Running /\ Cur.op = "GetInput" /\ Cur.pin = "PUT"
  /\ \/ variant = "DV" /\ proc = "GPIO_SetPullResistor"
     \/ variant = "MC" /\ proc = "GPIO_GetInput"

\* Those of them that check a pull resistor alone (DV_GPIO.c:481, 503;
\* DV_GPIO.MC.c:581, 602): the last call before the settle delay enabled a pull.
PullAloneRead ==
  /\ PullRead
  /\ Prog[LastBefore(Prog, pc, LevelOps)].op = "SetPullResistor"
  /\ Prog[LastBefore(Prog, pc, LevelOps)].pin = "PUT"
  /\ Prog[LastBefore(Prog, pc, LevelOps)].arg # "NONE"

\* C14: at each read that checks a pull resistor alone the auxiliary pin is an
\* input and does not drive the line, the pin under test is an input with the
\* pull-up or pull-down enabled, and the conforming driver reads the expected
\* level, 1 for pull-up and 0 for pull-down; at every other read of these two
\* procedures the auxiliary pin drives the expected level L and the driver
\* reads L whatever pull is enabled on the pin under test.
C14_PullResistor ==
  PullRead =>
    /\ dir["PUT"] = "INPUT"
    /\ conf => DrvGetInput(Hw, "PUT", lvl) = {Cur.arg}
    /\ IF PullAloneRead
       THEN /\ dir["AUX"] = "INPUT" /\ ~Drives(Hw, "AUX")
            /\ pull["PUT"] \in {"UP", "DOWN"}
            /\ Cur.arg = (IF pull["PUT"] = "UP" THEN 1 ELSE 0)
       ELSE /\ Drives(Hw, "AUX") /\ out["AUX"] = Cur.arg

\* C14 witness: the pull-up is read alone in DV_GPIO.c, and (second disjunct)
\* a 0 driven by the auxiliary pin is read with the pull-up enabled.
C14_Witness ==
  /\ conf /\ variant = "DV" /\ PullRead
  /\ pull["PUT"] = "UP" /\ ~PullAloneRead
  /\ Drives(Hw, "AUX") /\ out["AUX"] = 0 /\ Cur.arg = 0

\* The operations that return a status, and the valid values of their
\* second parameter.
StatusOps == {"Setup", "SetDirection", "SetOutputMode", "SetPullResistor", "SetEventTrigger"}

ValidArgs(op) ==
  CASE op = "Setup"           -> {"NULL", "GPIO_DrvEvent"}
    [] op = "SetDirection"    -> {"INPUT", "OUTPUT"}
    [] op = "SetOutputMode"   -> {"PUSH_PULL", "OPEN_DRAIN"}
    [] op = "SetPullResistor" -> {"NONE", "UP", "DOWN"}
    [] op = "SetEventTrigger" -> Triggers
    [] op = "SetOutput"       -> {0, 1}
    [] OTHER                  -> {}

\* Some procedure of file v calls op on the pin under test with argument a and
\* asserts that the status is OK.
AssertedCall(v, op, a) ==
  \E p \in Procs : \E i \in 1..Len(Code(v, p)) :
    LET c == Code(v, p)[i]
    IN  c.op = op /\ c.pin = "PUT" /\ c.chk = "assert" /\ c.arg = a

\* C15: the suite of the file that is built calls every status-returning
\* operation on the pin under test with every valid value and asserts the
\* status (looked at whenever a procedure is about to start); and every driver
\* call issued so far passed a valid value.
C15_ValidParameters ==
  /\ pc = 1 =>
       \A op \in StatusOps : \A a \in ValidArgs(op) : AssertedCall(variant, op, a)
  /\ \A i \in 1..Len(log) :
       LET c == Prog[log[i]]
       IN  c.op # "GetInput" => c.arg \in ValidArgs(c.op)

\* C15 witness: GPIO_SetPullResistor of DV_GPIO.MC.c has returned after
\* calling SetPullResistor with NONE, UP and DOWN against a driver that
\* returned an error, so an assertion on a status failed.
C15_Witness ==
  /\ variant = "MC" /\ proc = "GPIO_SetPullResistor" /\ ~Running
  /\ Len(log) = 6 /\ failed

ZeroRecord == [event |-> 0, pin |-> 0, cnt |-> 0]

\* C16: interrupts are disabled only inside the masked-window phase of
\* GPIO_SetEventTrigger (both files); both drives of the auxiliary pin of that
\* phase are issued with interrupts disabled; no callback runs while they are
\* disabled, so the record is (0, 0, 0) all the time they are and still so when
\* __enable_irq is about to be executed, after both drives.
C16_MaskedInterval ==
  /\ ~irq =>
       /\ proc = "GPIO_SetEventTrigger" /\ Running /\ Cur.ph = "masked"
       /\ Rec = ZeroRecord /\ ncb = 0
  /\ (proc = "GPIO_SetEventTrigger" /\ Running /\ Cur.ph = "masked"
        /\ Cur.op = "SetOutput") => (Cur.pin = "AUX" /\ ~irq)
  /\ At("enable_irq") =>
       /\ ~irq /\ hist = <<"stim", "stim">>
       /\ Rec = ZeroRecord

\* C16 witness: in DV_GPIO.c __enable_irq is about to be executed with the
\* callbacks of both edges pending and the record still zero.
C16_Witness ==
  /\ variant = "DV" /\ conf /\ At("enable_irq") /\ ~irq
  /\ Len(pend) = 2 /\ Rec = ZeroRecord

C18_Terminates ==
  /\ [][(Running /\ pc' # pc) => (proc' = proc /\ pc < pc' /\ pc' <= EndPc)]_vars
  /\ Running ~> ~Running

\* C18 witness: GPIO_SetEventTrigger of DV_GPIO.c, the longest procedure and
\* the one that waits for callbacks, has returned with no assertion failed.
C18_Witness ==
  /\ variant = "DV" /\ proc = "GPIO_SetEventTrigger"
  /\ pc = EndPc /\ ~failed /\ Len(log) > 2

\* C19 as stated: throughout the six phases of GPIO_SetEventTrigger, in both
\* files, GPIO_DrvEvent is the callback registered on the pin under test.
C19_AsStated ==
  (proc = "GPIO_SetEventTrigger" /\ Running /\ Cur.ph \in ScenarioPhases) => cb

\* The three event flags together.
AnyEdgeFlag ==
  BitOr(ARM_GPIO_EVENT_RISING_EDGE,
        BitOr(ARM_GPIO_EVENT_FALLING_EDGE, ARM_GPIO_EVENT_EITHER_EDGE))

\* C20 as stated: the mask assertion of the masked-window phase passes if and
\* only if the latched mask includes one of the three event flags.
C20_AsStated ==
  (verdict.kind = "assert_event" /\ verdict.ph = "masked") =>
    (verdict.pass <=> BitAnd(verdict.rec.event, AnyEdgeFlag) # 0)

\* C21 as stated: in GPIO_SetEventTrigger of DV_GPIO.c, against a conforming
\* driver, every reset of the record begins while no trigger is armed on the
\* pin under test or while the line has not changed level since the last
\* settle delay ended; no callback runs between the first and the last
\* assignment of a reset; and at every read of the record the mask is 0
\* exactly when the count is 0.
C21_AsStated ==
  [][(variant = "DV" /\ conf /\ proc = "GPIO_SetEventTrigger" /\ Running) =>
       /\ Cur.op = "clr_event" => (trig = "NONE" \/ ~moved)
       /\ (Cur.op \in {"clr_pin", "clr_cnt"} /\ pc' = pc) => ncb' = ncb
       /\ Cur.op \in RecordReads => (gpio_event = 0 <=> gpio_irq_cnt = 0)]_vars

\* C22 as stated: whenever a lastPin assertion of GPIO_SetEventTrigger is
\* evaluated, the value a reset writes to lastPin differs from the identifier
\* of the pin under test; the assertion 'lastPin == pin under test' passes only
\* if a callback ran since the last reset and the last one named the pin under
\* test; and the assertion 'lastPin == 0' fails if such a callback ran.
C22_AsStated ==
  verdict.kind = "assert_pin" =>
    /\ put # NoVerdict.rec.pin
    /\ (verdict.arg = "PUT" /\ verdict.pass) => (ncb > 0 /\ gpio_pin = put)
    /\ (verdict.arg = "ZERO" /\ ncb > 0 /\ gpio_pin = put) => ~verdict.pass

\* The value written by the first SetOutput call at or after statement n of c.
NextWrite(c, n) ==
  LET i == CHOOSE k \in n..Len(c) :
             /\ c[k].op = "SetOutput"
             /\ \A j \in n..(k - 1) : c[j].op # "SetOutput"
  IN  c[i].arg

\* C23: in the scenario phases of GPIO_SetEventTrigger (both files), at every
\* driver call of a stimulus -- from its first call up to the write of the
\* output latch -- the auxiliary pin is a push-pull output and drives the
\* complement of the value the stimulus writes: 0 when a rising stimulus
\* starts and 1 when a falling one starts; and at the first statement of the
\* trigger-none and masked-window phases the auxiliary pin is a push-pull
\* output driving 0.
C23_RealStimulus ==
  (proc = "GPIO_SetEventTrigger" /\ Running /\ Cur.ph \in ScenarioPhases) =>
    /\ Cur.pin = "AUX" =>
         /\ dir["AUX"] = "OUTPUT" /\ mode["AUX"] = "PUSH_PULL"
         /\ out["AUX"] = 1 - NextWrite(Prog, pc)
    /\ (Cur.ph \in {"none", "masked"} /\ Prog[pc - 1].ph # Cur.ph) =>
         /\ dir["AUX"] = "OUTPUT" /\ mode["AUX"] = "PUSH_PULL"
         /\ out["AUX"] = 0

\* C23 witness: in the masked-window phase of DV_GPIO.MC.c, on a run that is
\* not the first and against a driver whose Setup keeps the pin's settings, the
\* falling stimulus is about to write 0 while the auxiliary pin drives 1.
C23_Witness ==
  /\ variant = "MC" /\ ~setupResets /\ ~first
  /\ proc = "GPIO_SetEventTrigger" /\ Running /\ Cur.ph = "masked"
  /\ Cur.op = "SetOutput" /\ Cur.pin = "AUX" /\ Cur.arg = 0
  /\ out["AUX"] = 1 /\ lvl = 1 /\ ~irq

\* The direction passed by the last SetDirection call on pin p among the calls
\* l (statement numbers of c, in the order issued); "" when there is none.
LastDirection(c, l, p) ==
  LET W == {i \in 1..Len(l) : c[l[i]].op = "SetDirection" /\ c[l[i]].pin = p}
  IN  IF W = {} THEN "" ELSE c[l[CHOOSE i \in W : \A k \in W : k <= i]].arg

\* C24: in DV_GPIO.c, after any sequence of test procedures started from
\* power-on defaults and for both behaviours of Setup, the pin under test and
\* the auxiliary pin are never outputs at the same time; and when a procedure
\* has returned, the last direction it set on each pin it configured is INPUT,
\* both pins are inputs and no callback is registered on the pin under test.
C24_PinDirections ==
  variant = "DV" =>
    /\ ~(dir["PUT"] = "OUTPUT" /\ dir["AUX"] = "OUTPUT")
    /\ (proc # "none" /\ ~Running) =>
         /\ \A p \in Pins :
              /\ LastDirection(Prog, log, p) \in {"", "INPUT"}
              /\ dir[p] = "INPUT"
         /\ ~cb

\* C24 witness: GPIO_SetDirection of DV_GPIO.c has returned after issuing all
\* its calls, on a run that is not the first, against a driver whose Setup
\* keeps the direction; it made the pin under test an output on the way.
C24_Witness ==
  /\ variant = "DV" /\ ~setupResets /\ ~first
  /\ proc = "GPIO_SetDirection" /\ ~Running /\ log = DriverCalls(Prog)
  /\ \E i \in 1..Len(log) :
       /\ Prog[log[i]].op = "SetDirection" /\ Prog[log[i]].pin = "PUT"
       /\ Prog[log[i]].arg = "OUTPUT"
  /\ LastDirection(Prog, log, "PUT") = "INPUT" /\ dir["PUT"] = "INPUT"

\* The trigger passed by the last SetEventTrigger call on the pin under test
\* among the calls l (statement numbers of c, in the order issued).
LastTrigger(c, l) ==
  LET W == {i \in 1..Len(l) : c[l[i]].op = "SetEventTrigger" /\ c[l[i]].pin = "PUT"}
  IN  IF W = {} THEN "" ELSE c[l[CHOOSE i \in W : \A k \in W : k <= i]].arg

\* C25 as stated: when GPIO_SetEventTrigger (either file) has returned after
\* issuing all its driver calls, the last SetEventTrigger call it issued on the
\* pin under test passed trigger NONE, and no trigger is armed on the pin.
C25_AsStated ==
  (proc = "GPIO_SetEventTrigger" /\ ~Running /\ log = DriverCalls(Prog)) =>
    /\ LastTrigger(Prog, log) = "NONE"
    /\ trig = "NONE"

\* The statements of c from a __disable_irq at n up to the next __enable_irq
\* contain no settle delay and no check that can end the procedure, and there
\* is such an __enable_irq before the end.
Balanced(c, n) ==
  \E e \in (n + 1)..Len(c) :
    /\ c[e].op = "enable_irq"
    /\ \A j \in (n + 1)..(e - 1) :
         /\ c[j].op \notin {"osDelay", "disable_irq", "enable_irq"}
         /\ c[j].chk # "probe"

\* C26: in both files every __disable_irq is followed by an __enable_irq in
\* the same procedure with no settle delay in between, no procedure returns
\* from between the two, and so interrupts are enabled at every osDelay call,
\* whenever no procedure is running, and outside GPIO_SetEventTrigger.
C26_MaskingBalanced ==
  /\ pc = 1 =>
       \A v \in Variants, p \in Procs :
         \A n \in 1..Len(Code(v, p)) :
           Code(v, p)[n].op = "disable_irq" => Balanced(Code(v, p), n)
  /\ ~irq => /\ proc = "GPIO_SetEventTrigger" /\ Running
             /\ Cur.ph = "masked" /\ Cur.op # "osDelay"
  /\ At("osDelay") => irq
  /\ ~Running => irq

\* C26 witness: the settle delay of the masked-window phase is reached with
\* interrupts enabled again and the callbacks of the masked edges pending.
C26_Witness ==
  /\ proc = "GPIO_SetEventTrigger" /\ At("osDelay") /\ Cur.ph = "masked"
  /\ irq /\ pend # << >> /\ cb
  /\ Prog[pc - 1].op = "enable_irq"

\* C27: with n the number of callbacks run since the last reset and e1..en
\* their 32-bit event arguments, the latched mask is (e1 | ... | en) mod 2^8
\* and the count is n mod 2^8: the count equals n exactly when n is below 256,
\* and it is 0 again at n = 256.
C27_EightBitRecord ==
  /\ gpio_event = allEvents % 2^8
  /\ gpio_irq_cnt = ncb % 2^8
  /\ (gpio_irq_cnt = ncb) <=> (ncb < 2^8)
  /\ ncb = 2^8 => gpio_irq_cnt = 0

\* C27 witness: the 256th callback since the reset has just run, the count
\* reads 0, and an event with a bit above bit 7 was among the arguments while
\* the mask holds only the low bits.
C27_Witness ==
  /\ verdict.kind = "callback"
  /\ ncb = 2^8 /\ gpio_irq_cnt = 0
  /\ allEvents >= 2^8 /\ gpio_event = ARM_GPIO_EVENT_RISING_EDGE

====
